---- MODULE Spec2Model ----
(***************************************************************************)
(* Model of hybrid_partitioner (src/partition_P1/partitioner.py): spectral *)
(* labelling, pairwise Kernighan-Lin refinement of adjacent partitions and *)
(* the greedy I/O-balancing loop, over bounded directed graphs.            *)
(*                                                                         *)
(* Conventions.                                                            *)
(*  - Nodes are 1..num_nodes; the graph is its set of directed edges       *)
(*    <<u, v>> (nx.DiGraph: no parallel edges, self-loops allowed).        *)
(*  - partitions is a sequence of sets; position p of the model is Python  *)
(*    index p-1.                                                           *)
(*  - io_balance_alpha is the rational io_balance_alpha / AlphaDen, and    *)
(*    every total_gain is kept scaled by AlphaDen.                         *)
(*  - The iteration order of a Python set (adj_pairs, boundary_nodes,      *)
(*    neighbor_partitions) is unspecified: every order is a behaviour.     *)
(*  - SpectralClustering.fit_predict is a library call: any label vector   *)
(*    in 0..k-1 is a possible result.  random.shuffle inside               *)
(*    kernighan_lin_bisection acts on list(G), whose order is not fixed by *)
(*    the node set: any balanced initial split is a possible result.       *)
(***************************************************************************)
EXTENDS Integers, Sequences, FiniteSets, TLC

\* ---------------------------------------------------------------- bounds
MaxNodes == 4
MaxEdges == 4
MaxTarget == 4
MaxKLIter == 1

\* io_balance_alpha values, as numerators over AlphaDen: 0 and 0.1 (default)
AlphaDen == 10
Alphas == {0, 1}

\* dict.get(...) of a missing key
None == 0

VARIABLES
    num_nodes,              \* graph.number_of_nodes()
    edges,                  \* graph.edges()
    target_partition_size,
    kl_max_iter,
    io_balance_alpha,
    pc,                     \* position in hybrid_partitioner
    k,
    partitions,
    adjacent_pairs,         \* list(adj_pairs), from the pair the loop visits next
    cut_after_kl,           \* the cut size reported at line 164
    node_to_partition,
    iteration,              \* passes of the I/O-balancing loop completed with a move
    moves,                  \* node moves applied by the I/O-balancing loop
    stop,                   \* how the I/O-balancing loop ended: "none", "break", "cap"
    final_partitions,       \* the returned list
    \* a repeated run of the I/O-balancing phase on the same refined partitions
    pc2, partitions2, node_to_partition2, iteration2, final_partitions2

inputs == <<num_nodes, edges, target_partition_size, kl_max_iter, io_balance_alpha>>
run1 == <<pc, k, partitions, adjacent_pairs, cut_after_kl,
          node_to_partition, iteration, moves, stop, final_partitions>>
run2 == <<pc2, partitions2, node_to_partition2, iteration2, final_partitions2>>
vars == <<inputs, run1, run2>>

\* ------------------------------------------------------------- helpers
Nodes == 1..num_nodes

Abs(x) == IF x < 0 THEN -x ELSE x

Max(S) == CHOOSE x \in S : \A y \in S : y <= x

Min(S) == CHOOSE x \in S : \A y \in S : x <= y

\* a floor division plus one in place of the ceiling
CeilDivFloorPlusOne(n, t) == (n \div t) + 1

\* math.ceil(num_nodes / target_partition_size)
CeilDiv(n, t) == (n + t - 1) \div t

\* subsets of S with at most m elements
RECURSIVE SubsetsUpTo(_, _)
SubsetsUpTo(S, m) ==
    IF m = 0 \/ S = {} THEN {{}}
    ELSE LET x == CHOOSE y \in S : TRUE
             rest == S \ {x}
         IN SubsetsUpTo(rest, m) \cup {T \cup {x} : T \in SubsetsUpTo(rest, m - 1)}

\* The graphs drawn: signal flow from lower to higher node ids, plus a
\* self-loop on node 1 and a feedback edge from node 2 to node 1, so that
\* self-loops and antiparallel edge pairs occur.
EdgeSlots(n) ==
    {e \in (1..n) \X (1..n) : e[1] < e[2] \/ e = <<1, 1>> \/ e = <<2, 1>>}

\* The label vectors drawn: clusters are numbered in the order of their
\* first node, so vectors that differ by a renaming of clusters are drawn once.
LabelVectors(n, kk) ==
    {lab \in [1..n -> 1..kk] :
        \A x \in 1..n : \A c \in 1..(lab[x] - 1) : \E y \in 1..(x - 1) : lab[y] = c}

\* {node: i for i, p in enumerate(partitions) for node in p}: a later
\* partition overwrites an earlier one
NodeToPartition(parts) ==
    [n \in UNION {parts[i] : i \in DOMAIN parts} |->
        Max({i \in DOMAIN parts : n \in parts[i]})]

Get(map, n) == IF n \in DOMAIN map THEN map[n] ELSE None

CalculateCutSize(parts) ==
    LET m == NodeToPartition(parts)
    IN Cardinality({e \in edges : Get(m, e[1]) # Get(m, e[2])})

\* <<len(inputs), len(outputs)>>
GetIOForPartition(partition_nodes) ==
    LET ins == {e[1] : e \in {d \in edges : d[2] \in partition_nodes /\ d[1] \notin partition_nodes}}
        outs == {e[2] : e \in {d \in edges : d[1] \in partition_nodes /\ d[2] \notin partition_nodes}}
    IN <<Cardinality(ins), Cardinality(outs)>>

HasEdge(u, v) == <<u, v>> \in edges

FindAdjacentPartitionsForwardOnly(parts) ==
    {pr \in (DOMAIN parts) \X (DOMAIN parts) :
        /\ pr[1] < pr[2]
        /\ \E u \in parts[pr[1]], v \in parts[pr[2]] : HasEdge(u, v)}

FindAdjacentPartitions(parts) ==
    {pr \in (DOMAIN parts) \X (DOMAIN parts) :
        /\ pr[1] < pr[2]
        /\ \E u \in parts[pr[1]], v \in parts[pr[2]] : HasEdge(u, v) \/ HasEdge(v, u)}

\* every list a set can be turned into
ListsOf(S) ==
    {s \in [1..Cardinality(S) -> S] : \A a, b \in DOMAIN s : a # b => s[a] # s[b]}

\* ---------------------------------------------------------------- Init
Init ==
    /\ num_nodes \in 0..MaxNodes
    /\ edges \in SubsetsUpTo(EdgeSlots(num_nodes), MaxEdges)
    /\ target_partition_size \in 1..MaxTarget
    /\ kl_max_iter \in 0..MaxKLIter
    /\ io_balance_alpha \in Alphas
    /\ pc = "start"
    /\ k = 0
    /\ partitions = <<>>
    /\ adjacent_pairs = <<>>
    /\ cut_after_kl = 0
    /\ node_to_partition = <<>>
    /\ iteration = 0
    /\ moves = 0
    /\ stop = "none"
    /\ final_partitions = <<>>
    /\ pc2 = "start"
    /\ partitions2 = <<>>
    /\ node_to_partition2 = <<>>
    /\ iteration2 = 0
    /\ final_partitions2 = <<>>

\* ------------------------------------------------------ lines 101 - 138
\* num_nodes == 0: return []
ReturnEmpty ==
    /\ pc = "start"
    /\ num_nodes = 0
    /\ final_partitions' = <<>>
    /\ pc' = "done"
    /\ UNCHANGED <<inputs, k, partitions, adjacent_pairs,
                   cut_after_kl, node_to_partition, iteration, moves, stop, run2>>

\* k < 2: return [set(graph.nodes())]
ReturnSingle ==
    /\ pc = "start"
    /\ num_nodes # 0
    /\ CeilDiv(num_nodes, target_partition_size) < 2
    /\ k' = CeilDiv(num_nodes, target_partition_size)
    /\ final_partitions' = <<Nodes>>
    /\ pc' = "done"
    /\ UNCHANGED <<inputs, partitions, adjacent_pairs,
                   cut_after_kl, node_to_partition, iteration, moves, stop, run2>>

\* partitions = [set() for _ in range(k)]; partitions[labels[i]].add(node)
PartitionsOfLabels(kk, lab) == [p \in 1..kk |-> {n \in DOMAIN lab : lab[n] = p}]

SpectralClustering ==
    /\ pc = "start"
    /\ num_nodes # 0
    /\ CeilDiv(num_nodes, target_partition_size) >= 2
    /\ k' = CeilDiv(num_nodes, target_partition_size)
    /\ \E lab \in LabelVectors(num_nodes, k') :
          partitions' = PartitionsOfLabels(k', lab)
    /\ pc' = "spectral"
    /\ UNCHANGED <<inputs, adjacent_pairs, cut_after_kl,
                   node_to_partition, iteration, moves, stop, final_partitions, run2>>

\* adjacent_pairs = _find_adjacent_partitions(graph, partitions)
FindAdjacent ==
    /\ pc = "spectral"
    /\ adjacent_pairs' \in ListsOf(FindAdjacentPartitions(partitions))
    /\ pc' = "kl"
    /\ UNCHANGED <<inputs, k, partitions, cut_after_kl,
                   node_to_partition, iteration, moves, stop, final_partitions, run2>>

\* ------------------------------------------------------ lines 148 - 162
\* nx.community.kernighan_lin_bisection(subgraph, max_iter=kl_max_iter, seed=42)
\* on graph.subgraph(S).to_undirected(): u and v are joined when the graph
\* has an edge between them in either direction; a self-loop joins u to u.
UndirectedNeighbors(S, u) == {v \in S : HasEdge(u, v) \/ HasEdge(v, u)}

SideOf(side, s) == {u \in DOMAIN side : side[u] = s}

\* seed.shuffle(labels); side = [0] * (n // 2) + [1] * ((n + 1) // 2):
\* no partition argument is passed, so the existing split is not the seed
InitialSides(S) ==
    {side \in [S -> {0, 1}] : Cardinality(SideOf(side, 0)) = Cardinality(S) \div 2}

\* the cost a node enters its heap with: edges to its own side minus edges
\* to the other side
InitialCosts(S, side) ==
    [u \in S |->
        Cardinality({v \in UndirectedNeighbors(S, u) : side[v] = side[u]})
      - Cardinality({v \in UndirectedNeighbors(S, u) : side[v] # side[u]})]

\* _update_costs(costs_x, x), for the nodes rem still in a heap
UpdateCosts(S, side, cost, rem, x) ==
    [y \in S |->
        IF y \in rem /\ y \in UndirectedNeighbors(S, x)
        THEN cost[y] + 2 * (IF side[y] = side[x] THEN -1 ELSE 1)
        ELSE cost[y]]

\* the nodes of rem a heap can pop next (equal costs pop in insertion order,
\* which follows the shuffled order)
HeapMin(cost, rem) == {u \in rem : \A y \in rem : cost[u] <= cost[y]}

\* _kernighan_lin_sweep: every list of <<totcost, u, v>> the sweep can yield
RECURSIVE KernighanLinSweep(_, _, _, _, _, _)
KernighanLinSweep(S, side, cost, rem, totcost, costs) ==
    LET rem0 == rem \cap SideOf(side, 0)
        rem1 == rem \cap SideOf(side, 1)
    IN IF rem0 = {} \/ rem1 = {} THEN {costs}
       ELSE UNION {
              LET cost_a == UpdateCosts(S, side, cost, rem \ {u}, u)
              IN UNION {
                   LET cost_b == UpdateCosts(S, side, cost_a, rem \ {u, v}, v)
                       tot == totcost + cost[u] + cost_a[v]
                   IN KernighanLinSweep(S, side, cost_b, rem \ {u, v}, tot,
                                        Append(costs, <<tot, u, v>>))
                   : v \in HeapMin(cost_a, rem1) }
              : u \in HeapMin(cost, rem0) }

\* min_cost, min_i, _ = min(costs)
MinCost(costs) == Min({costs[i][1] : i \in DOMAIN costs})

MinI(costs) == Min({i \in DOMAIN costs : costs[i][1] = MinCost(costs)})

\* for _, _, (u, v) in costs[:min_i]: side[u] = 1; side[v] = 0
ApplySwaps(side, costs, min_i) ==
    [x \in DOMAIN side |->
        IF \E i \in 1..min_i : costs[i][2] = x THEN 1
        ELSE IF \E i \in 1..min_i : costs[i][3] = x THEN 0
        ELSE side[x]]

\* for i in range(max_iter): every side vector the loop can end with
RECURSIVE KLIterations(_, _, _, _)
KLIterations(S, side, i, max_iter) ==
    IF i >= max_iter THEN {side}
    ELSE UNION {
           IF MinCost(costs) >= 0 THEN {side}
           ELSE KLIterations(S, ApplySwaps(side, costs, MinI(costs)), i + 1, max_iter)
           : costs \in KernighanLinSweep(S, side, InitialCosts(S, side), S, 0, <<>>) }

\* every (A, B) the call can return
KernighanLinBisection(S, max_iter) ==
    {<<SideOf(side, 0), SideOf(side, 1)>> :
        side \in UNION {KLIterations(S, s0, 0, max_iter) : s0 \in InitialSides(S)}}

\* directed edges with one end in parts[i] and the other in parts[j]
PairCut(parts, i, j) ==
    Cardinality({e \in edges : \/ e[1] \in parts[i] /\ e[2] \in parts[j]
                               \/ e[1] \in parts[j] /\ e[2] \in parts[i]})

\* one turn of "for i, j in adjacent_pairs"
KLRefine ==
    /\ pc = "kl"
    /\ adjacent_pairs # <<>>
    /\ LET i == Head(adjacent_pairs)[1]
           j == Head(adjacent_pairs)[2]
           subgraph_nodes == partitions[i] \cup partitions[j]
       IN \E refined \in KernighanLinBisection(subgraph_nodes, kl_max_iter) :
             partitions' = [partitions EXCEPT ![i] = refined[1], ![j] = refined[2]]
    /\ adjacent_pairs' = Tail(adjacent_pairs)
    /\ UNCHANGED <<inputs, pc, k, cut_after_kl, node_to_partition, iteration, moves,
                   stop, final_partitions, run2>>

\* lines 164 - 171: the loop over adjacent_pairs is exhausted
BuildNodeToPartition ==
    /\ pc = "kl"
    /\ adjacent_pairs = <<>>
    /\ cut_after_kl' = CalculateCutSize(partitions)
    /\ node_to_partition' = NodeToPartition(partitions)
    /\ pc' = "io"
    /\ UNCHANGED <<inputs, k, partitions, adjacent_pairs, iteration, moves, stop,
                   final_partitions, run2>>

\* ------------------------------------------------------ lines 173 - 258
\* MAX_IO_BALANCE_ITERATIONS = graph.number_of_nodes()
MaxIOBalanceIterations == num_nodes

Predecessors(n) == {e[1] : e \in {d \in edges : d[2] = n}}

Successors(n) == {e[2] : e \in {d \in edges : d[1] = n}}

\* nodes with an edge whose ends lie in different partitions
BoundaryNodes(ntp) ==
    {n \in Nodes : \E e \in edges : n \in {e[1], e[2]} /\ Get(ntp, e[1]) # Get(ntp, e[2])}

NeighborPartitions(ntp, n) ==
    {ntp[x] : x \in (Predecessors(n) \cup Successors(n)) \cap DOMAIN ntp}

\* nx.all_neighbors(graph, node) chains predecessors and successors, so a
\* neighbor on both lists (antiparallel edges, a self-loop) is counted twice
NeighborCount(ntp, n, p) ==
    Cardinality({u \in Predecessors(n) : Get(ntp, u) = p})
  + Cardinality({v \in Successors(n) : Get(ntp, v) = p})

\* the two counts of cut_gain exchanged
CutGainSwapped(ntp, n, t) == NeighborCount(ntp, n, ntp[n]) - NeighborCount(ntp, n, t)

CutGain(ntp, n, t) == NeighborCount(ntp, n, t) - NeighborCount(ntp, n, ntp[n])

IOImbalance(partition_nodes) ==
    LET io == GetIOForPartition(partition_nodes) IN Abs(io[1] - io[2])

\* io_before_move - io_after_move over {current_part_idx, target_part_idx}
IOGain(parts, ntp, n, t) ==
    LET c == ntp[n]
    IN (IOImbalance(parts[c]) + IOImbalance(parts[t]))
     - (IOImbalance(parts[c] \ {n}) + IOImbalance(parts[t] \cup {n}))

\* total_gain = cut_gain + io_balance_alpha * io_gain, times AlphaDen
TotalGain(parts, ntp, n, t) ==
    AlphaDen * CutGain(ntp, n, t) + io_balance_alpha * IOGain(parts, ntp, n, t)

\* the (node, target_part_idx) pairs the two nested loops visit
Candidates(ntp) ==
    {mv \in BoundaryNodes(ntp) \X (1..k) :
        mv[2] \in NeighborPartitions(ntp, mv[1]) /\ mv[2] # ntp[mv[1]]}

\* best_move after the pass: the first candidate of maximal total_gain in
\* iteration order, so any candidate of maximal total_gain
BestMoves(parts, ntp) ==
    LET gains == {<<mv, TotalGain(parts, ntp, mv[1], mv[2])>> : mv \in Candidates(ntp)}
    IN {g[1] : g \in {h \in gains : \A o \in gains : o[2] <= h[2]}}

\* a threshold of one whole cut edge in place of zero
ImprovesByMoreThanOne(total_gain) == total_gain > AlphaDen

\* if best_move['cost_improvement'] > 0
Improves(total_gain) == total_gain > 0

\* the moves the pass can apply; none when it ends in a break (no boundary
\* nodes, or best_move does not improve)
MovesOfPass(parts, ntp) ==
    IF BoundaryNodes(ntp) = {} THEN {}
    ELSE LET best_moves == BestMoves(parts, ntp)
         IN IF \E mv \in best_moves : Improves(TotalGain(parts, ntp, mv[1], mv[2]))
            THEN best_moves ELSE {}

\* the move without the remove from the current partition
ApplyMoveNoRemove(parts, ntp, n, t) == [parts EXCEPT ![t] = parts[t] \cup {n}]

\* partitions[current_idx].remove(node_to_move); partitions[target_idx].add(node_to_move)
ApplyMove(parts, ntp, n, t) ==
    [parts EXCEPT ![ntp[n]] = parts[ntp[n]] \ {n}, ![t] = parts[t] \cup {n}]

\* a pass that applies its move without counting as a pass
IOMoveNotCounted ==
    /\ pc = "io"
    /\ iteration < MaxIOBalanceIterations
    /\ \E mv \in MovesOfPass(partitions, node_to_partition) :
          /\ partitions' = ApplyMove(partitions, node_to_partition, mv[1], mv[2])
          /\ node_to_partition' = [node_to_partition EXCEPT ![mv[1]] = mv[2]]
    /\ moves' = moves + 1
    /\ UNCHANGED <<inputs, pc, k, adjacent_pairs, cut_after_kl, iteration,
                   stop, final_partitions, run2>>

\* one pass that applies the best move
IOMove ==
    /\ pc = "io"
    /\ iteration < MaxIOBalanceIterations
    /\ \E mv \in MovesOfPass(partitions, node_to_partition) :
          /\ partitions' = ApplyMove(partitions, node_to_partition, mv[1], mv[2])
          /\ node_to_partition' = [node_to_partition EXCEPT ![mv[1]] = mv[2]]
    /\ iteration' = iteration + 1
    /\ moves' = moves + 1
    /\ UNCHANGED <<inputs, pc, k, adjacent_pairs, cut_after_kl,
                   stop, final_partitions, run2>>

\* one pass that ends in a break
IOBreak ==
    /\ pc = "io"
    /\ iteration < MaxIOBalanceIterations
    /\ MovesOfPass(partitions, node_to_partition) = {}
    /\ stop' = "break"
    /\ pc' = "balanced"
    /\ UNCHANGED <<inputs, k, partitions, adjacent_pairs,
                   cut_after_kl, node_to_partition, iteration, moves, final_partitions, run2>>

\* range(MAX_IO_BALANCE_ITERATIONS) is exhausted
IOCap ==
    /\ pc = "io"
    /\ iteration >= MaxIOBalanceIterations
    /\ stop' = "cap"
    /\ pc' = "balanced"
    /\ UNCHANGED <<inputs, k, partitions, adjacent_pairs,
                   cut_after_kl, node_to_partition, iteration, moves, final_partitions, run2>>

\* ------------------------------------------------------ lines 260 - 263
\* the list returned as it is
FilterNothing(parts) == parts

\* final_partitions = [p for p in partitions if p]
FilterEmpty(parts) == SelectSeq(parts, LAMBDA p : p # {})

Return ==
    /\ pc = "balanced"
    /\ final_partitions' = FilterEmpty(partitions)
    /\ pc' = "done"
    /\ UNCHANGED <<inputs, k, partitions, adjacent_pairs,
                   cut_after_kl, node_to_partition, iteration, moves, stop, run2>>

Next ==
    \/ ReturnEmpty \/ ReturnSingle \/ SpectralClustering \/ FindAdjacent
    \/ KLRefine \/ BuildNodeToPartition
    \/ IOMove \/ IOBreak \/ IOCap \/ Return

Spec == Init /\ [][Next]_vars

\* ------------------------------------------- a repeated run of lines 171 - 263
\* The same graph, configuration and refined partition list go through the
\* I/O-balancing phase a second time, after the first run has returned; only
\* the set iteration orders are free.
Rerun ==
    /\ pc = "io"
    /\ iteration = 0
    /\ pc2 = "start"
    /\ partitions2' = partitions
    /\ node_to_partition2' = NodeToPartition(partitions)
    /\ pc2' = "io"
    /\ UNCHANGED <<inputs, run1, iteration2, final_partitions2>>

IOMove2 ==
    /\ pc2 = "io"
    /\ iteration2 < MaxIOBalanceIterations
    /\ pc = "done"
    /\ \E mv \in MovesOfPass(partitions2, node_to_partition2) :
          /\ partitions2' = ApplyMove(partitions2, node_to_partition2, mv[1], mv[2])
          /\ node_to_partition2' = [node_to_partition2 EXCEPT ![mv[1]] = mv[2]]
    /\ iteration2' = iteration2 + 1
    /\ UNCHANGED <<inputs, run1, pc2, final_partitions2>>

IOStop2 ==
    /\ pc2 = "io"
    /\ pc = "done"
    /\ \/ iteration2 >= MaxIOBalanceIterations
       \/ MovesOfPass(partitions2, node_to_partition2) = {}
    /\ pc2' = "balanced"
    /\ UNCHANGED <<inputs, run1, partitions2, node_to_partition2, iteration2, final_partitions2>>

Return2 ==
    /\ pc = "done"
    /\ pc2 = "balanced"
    /\ final_partitions2' = FilterEmpty(partitions2)
    /\ pc2' = "done"
    /\ UNCHANGED <<inputs, run1, partitions2, node_to_partition2, iteration2>>

NextTwoRuns == Next \/ Rerun \/ IOMove2 \/ IOStop2 \/ Return2

\* the two runs are taken with io_balance_alpha = 0 and kl_max_iter = 0
InitTwoRuns == Init /\ io_balance_alpha = 0 /\ kl_max_iter = 0

SpecTwoRuns == InitTwoRuns /\ [][NextTwoRuns]_vars

\* ================================================================ claims
IsPartitionOf(parts, S) ==
    /\ UNION {parts[i] : i \in DOMAIN parts} = S
    /\ \A i, j \in DOMAIN parts : i # j => parts[i] \cap parts[j] = {}

\* C1: for a non-empty graph the partition list is a true partition of the
\* node set after spectral labelling, after each pairwise KL replacement,
\* after each I/O-balancing move, and in the returned list: every node is in
\* exactly one partition.
C1_TruePartition ==
    /\ pc \in {"spectral", "kl", "io", "balanced"} => IsPartitionOf(partitions, Nodes)
    /\ (pc = "done" /\ num_nodes # 0) => IsPartitionOf(final_partitions, Nodes)

C1_Witness ==
    /\ pc = "done"
    /\ moves > 0
    /\ cut_after_kl > 0
    /\ Len(final_partitions) >= 2

\* C2: no partition of the returned list is empty, also when a move took the
\* last node out of a partition or a spectral cluster received no node.
C2_NoEmptyReturned ==
    pc = "done" => \A i \in DOMAIN final_partitions : final_partitions[i] # {}

C2_Witness ==
    /\ pc = "done"
    /\ moves > 0
    /\ \E i \in DOMAIN partitions : partitions[i] = {}
    /\ Len(final_partitions) < Len(partitions)

\* C3 as stated: for every graph and every target_partition_size >= node_count
\* the result is exactly one partition holding all nodes.
C3_Original ==
    (pc = "done" /\ target_partition_size >= num_nodes) => final_partitions = <<Nodes>>

\* C3 amended: for every non-empty graph and every target_partition_size >=
\* node_count the result is exactly one partition holding all nodes, and no
\* clustering, refinement or balancing step has run.
C3_SinglePartition ==
    (pc = "done" /\ num_nodes # 0 /\ target_partition_size >= num_nodes) =>
        /\ final_partitions = <<Nodes>>
        /\ partitions = <<>>
        /\ node_to_partition = <<>>
        /\ iteration = 0 /\ moves = 0 /\ stop = "none"

C3_Witness ==
    /\ pc = "done"
    /\ num_nodes >= 2
    /\ target_partition_size >= num_nodes
    /\ final_partitions = <<Nodes>>

\* C4: two runs on the same graph, configuration and refined partitions
\* return the same partition list, whatever order the sets are iterated in.
C4_SameOutput ==
    (pc = "done" /\ pc2 = "done") => final_partitions = final_partitions2

\* C5: with io_balance_alpha = 0 the cut size after the I/O-balancing loop is
\* at most the cut size after KL refinement.
C5_CutNotIncreased ==
    (io_balance_alpha = 0 /\ pc \in {"balanced", "done"}) =>
        CalculateCutSize(partitions) <= cut_after_kl

C5_Witness ==
    /\ io_balance_alpha = 0
    /\ pc = "balanced"
    /\ moves > 0
    /\ CalculateCutSize(partitions) < cut_after_kl

\* C6: when the I/O-balancing loop ends in a break, no boundary node has a
\* move to a neighbouring partition with total_gain > 0.
C6_LocalOptimum ==
    stop = "break" =>
        \A n \in BoundaryNodes(node_to_partition) :
            \A t \in NeighborPartitions(node_to_partition, n) \ {node_to_partition[n]} :
                TotalGain(partitions, node_to_partition, n, t) <= 0

C6_Witness ==
    /\ stop = "break"
    /\ moves > 0
    /\ BoundaryNodes(node_to_partition) # {}

\* passes of the I/O-balancing loop started so far
Passes == iteration + (IF stop = "break" THEN 1 ELSE 0)

\* steps the function can still take once it is in the I/O-balancing loop
Remaining ==
    IF pc = "io" THEN 2 + num_nodes - iteration
    ELSE IF pc = "balanced" THEN 1
    ELSE 0

\* C7: the I/O-balancing loop always terminates: it performs at most
\* node_count passes with at most one move per pass (every step of the loop
\* uses up one of the steps that remain), and the function returns a partition
\* list also when the cap ends the loop.
C7_Terminates ==
    [][/\ Passes' <= num_nodes
       /\ moves' <= Passes'
       /\ Remaining' >= 0
       /\ pc \in {"io", "balanced"} => Remaining' < Remaining
       /\ (pc = "io" /\ pc' = "io") => (iteration' = iteration + 1 /\ moves' = moves + 1)
       /\ (pc = "io" /\ iteration = num_nodes) => (pc' = "balanced" /\ stop' = "cap")
       /\ pc = "balanced" => (pc' = "done" /\ IsPartitionOf(final_partitions', Nodes))]_vars

C7_Witness ==
    /\ pc = "done"
    /\ stop = "cap"
    /\ moves = num_nodes

LexLess(a, b) == a[1] < b[1] \/ (a[1] = b[1] /\ a[2] < b[2])

\* C8: the adjacent pairs are handed to the pairwise refiner in ascending
\* pair-index order.
C8_AscendingPairs ==
    pc = "kl" =>
        \A a, b \in DOMAIN adjacent_pairs :
            a < b => LexLess(adjacent_pairs[a], adjacent_pairs[b])

\* C9: a pairwise refinement never leaves more edges between partitions i
\* and j than there were before it.
C9_PairCutNotIncreased ==
    [][(pc = "kl" /\ adjacent_pairs # <<>> /\ adjacent_pairs' = Tail(adjacent_pairs)) =>
          PairCut(partitions', Head(adjacent_pairs)[1], Head(adjacent_pairs)[2])
            <= PairCut(partitions, Head(adjacent_pairs)[1], Head(adjacent_pairs)[2])]_vars

\* C10: for every candidate move the computed cut_gain equals the cut size
\* before the move minus the cut size after it.
C10_CutGainExact ==
    pc = "io" =>
        \A mv \in Candidates(node_to_partition) :
            CutGain(node_to_partition, mv[1], mv[2])
              = CalculateCutSize(partitions)
                - CalculateCutSize(ApplyMove(partitions, node_to_partition, mv[1], mv[2]))

\* the pairs one pass over the edges records: the partition indices of the
\* two endpoints, smaller index first, whenever they differ
EdgePassPairs(parts) ==
    LET m == NodeToPartition(parts)
    IN {IF m[e[1]] < m[e[2]] THEN <<m[e[1]], m[e[2]]>> ELSE <<m[e[2]], m[e[1]]>> :
            e \in {d \in edges : m[d[1]] # m[d[2]]}}

PairsOf(list) == {list[a] : a \in DOMAIN list}

\* C11: _find_adjacent_partitions returns exactly the index pairs one pass
\* over the edges yields: a pair <<i, j>> is reported if and only if some
\* edge, in either direction, joins partition i to partition j; each pair
\* appears once, as i < j, and no pair involves an empty partition.
C11_ExactAdjacentPairs ==
    [][pc = "spectral" =>
          /\ PairsOf(adjacent_pairs') = EdgePassPairs(partitions)
          /\ \A a, b \in DOMAIN adjacent_pairs' :
                a # b => adjacent_pairs'[a] # adjacent_pairs'[b]
          /\ \A pr \in PairsOf(adjacent_pairs') :
                pr[1] < pr[2] /\ partitions[pr[1]] # {} /\ partitions[pr[2]] # {}
          /\ \A i, j \in DOMAIN partitions :
                i < j =>
                  (<<i, j>> \in PairsOf(adjacent_pairs')
                     <=> \E e \in edges :
                           \/ e[1] \in partitions[i] /\ e[2] \in partitions[j]
                           \/ e[1] \in partitions[j] /\ e[2] \in partitions[i])]_vars

\* the pairs have just been computed for a list with an empty partition:
\* there are at least two of them and one comes from an edge that runs from
\* the higher partition to the lower one only
C11_Witness ==
    /\ pc = "kl"
    /\ Len(adjacent_pairs) >= 2
    /\ PairsOf(adjacent_pairs) = FindAdjacentPartitions(partitions)
    /\ \E i \in DOMAIN partitions : partitions[i] = {}
    /\ \E pr \in PairsOf(adjacent_pairs) :
          /\ \E e \in edges : e[1] \in partitions[pr[2]] /\ e[2] \in partitions[pr[1]]
          /\ ~ \E e \in edges : e[1] \in partitions[pr[1]] /\ e[2] \in partitions[pr[2]]
====
